---- MODULE Spec2Model ----
(***************************************************************************)
(* A model of crypto/objects/obj_dat.c: the OID registry (built-in table   *)
(* plus the "added" hash of user-registered objects), its reader/writer    *)
(* lock with run-once creation, the NID allocator, the cleanup sweep, the   *)
(* text form of an object (OBJ_obj2txt) and the loader of OBJ_create_objects. *)
(*                                                                         *)
(* C strings are tuples of one-character strings; the NULL pointer is the  *)
(* distinguished value NULL.  An ASN1_OBJECT is a record                   *)
(* [nid, sn, ln, data]; length = Len(data), and data = <<>> stands for     *)
(* length == 0 / data == NULL.                                             *)
(***************************************************************************)
EXTENDS Integers, Sequences, FiniteSets, TLC

VARIABLES
    added,      \* the LHASH "added": [null |-> BOOLEAN, recs |-> set of ADDED_OBJ]
    heap,       \* heap-allocated ASN1_OBJECTs of the added set: id -> object
    lock,       \* ossl_obj_lock: [null, w (writer thread or 0), r (set of readers)]
    once,       \* ossl_obj_lock_init: "init" | "ok" | "fail"
    new_nid,    \* the static counter of obj_new_nid_unlocked
    th,         \* per thread: position in the running call, arguments, locals, result
    crashed,    \* "" while the process runs, else why it died
    handed,     \* history: the blocks handed out by the allocator, in order
    shut,       \* history: ossl_obj_cleanup_int has completed at least once
    tsan_locking \* the build: TRUE when TSAN_REQUIRES_LOCKING is defined

vars == <<added, heap, lock, once, new_nid, th, crashed, handed, shut, tsan_locking>>

----------------------------------------------------------------------------
(* Bounds of the model *)

\* heap slots for added objects (live at the same time)
MaxObjs == 2
\* how far the NID allocator may advance beyond NUM_NID
MaxAlloc == 3

Threads == {1, 2}

----------------------------------------------------------------------------
(* Values *)

NULL == <<"NULL">>

NID_undef == 0

ADDED_DATA == 0
ADDED_SNAME == 1
ADDED_LNAME == 2
ADDED_NID == 3

\* the type an evicted record is given (aop[i]->type = -1)
ADDED_INVALID == 0 - 1

DigitChars == <<"0", "1", "2", "3", "4", "5", "6", "7", "8", "9">>

ossl_isdigit(c) == \E i \in 1..10 : DigitChars[i] = c

DigitVal(c) == (CHOOSE i \in 1..10 : DigitChars[i] = c) - 1

----------------------------------------------------------------------------
(* Codec: dotted decimal text -> DER content octets (a2d_ASN1_OBJECT).     *)

RECURSIVE SplitDots(_, _, _)
SplitDots(s, i, cur) ==
    IF i > Len(s) THEN <<cur>>
    ELSE IF s[i] = "." THEN <<cur>> \o SplitDots(s, i + 1, <<>>)
    ELSE SplitDots(s, i + 1, Append(cur, s[i]))

RECURSIVE DecVal(_, _)
DecVal(seg, acc) ==
    IF seg = <<>> THEN acc
    ELSE DecVal(Tail(seg), acc * 10 + DigitVal(Head(seg)))

RECURSIVE Base128(_, _)
Base128(v, last) ==
    LET b == (v % 128) + (IF last THEN 0 ELSE 128)
    IN  IF v < 128 THEN <<b>> ELSE Base128(v \div 128, FALSE) \o <<b>>

RECURSIVE EncodeArcs(_)
EncodeArcs(arcs) ==
    IF arcs = <<>> THEN <<>>
    ELSE Base128(Head(arcs), TRUE) \o EncodeArcs(Tail(arcs))

\* the longest DER content accepted (32 * 128 / 7)
MaxDerLen == 586

\* [ok |-> BOOLEAN, der |-> bytes]
text_to_der(s) ==
    LET segs == SplitDots(s, 1, <<>>)
        wellFormed == /\ Len(segs) >= 2
                      /\ \A k \in 1..Len(segs) :
                            /\ segs[k] # <<>>
                            /\ \A j \in 1..Len(segs[k]) : ossl_isdigit(segs[k][j])
    IN  IF ~wellFormed THEN [ok |-> FALSE, der |-> <<>>]
        ELSE LET arcs == [k \in 1..Len(segs) |-> DecVal(segs[k], 0)]
                 a == arcs[1]
                 b == arcs[2]
             IN  IF a > 2 \/ (a < 2 /\ b >= 40)
                 THEN [ok |-> FALSE, der |-> <<>>]
                 ELSE LET der == EncodeArcs(<<40 * a + b>> \o SubSeq(arcs, 3, Len(arcs)))
                      IN  IF Len(der) > MaxDerLen
                          THEN [ok |-> FALSE, der |-> <<>>]
                          ELSE [ok |-> TRUE, der |-> der]

----------------------------------------------------------------------------
(* Text form: the formatting half of OBJ_obj2txt.                          *)
(* The caller's buffer is a sequence of cells; buf and buf_len of the code *)
(* are the offset off into it and the room len left.                       *)

\* the width of unsigned long, scaled down: sub-identifiers of three bytes and more
\* take the BIGNUM path
ULongBits == 14

ULONG_MAX == 2 ^ ULongBits - 1

\* the terminating '\0' and a cell never written
NUL == "NUL"

Uninit == "?"

NoBuf == [null |-> TRUE, mem |-> <<>>, off |-> 0, len |-> 0, ovf |-> FALSE]

\* a buffer of buf_len bytes
NewBuf(buf_len) ==
    [null |-> FALSE, mem |-> [i \in 1..buf_len |-> Uninit], off |-> 0, len |-> buf_len,
     ovf |-> FALSE]

Terminated(mem) == \E i \in 1..Len(mem) : mem[i] = NUL

\* the C string in mem: the characters before the first NUL
CStr(mem) ==
    IF Terminated(mem)
    THEN SubSeq(mem, 1, (CHOOSE i \in 1..Len(mem) :
                            /\ mem[i] = NUL
                            /\ \A j \in 1..(i - 1) : mem[j] # NUL) - 1)
    ELSE mem

\* buf[j] = c; a write outside the buffer is recorded in ovf
Store(b, j, c) ==
    IF b.off + j + 1 \in 1..Len(b.mem)
    THEN [b EXCEPT !.mem[b.off + j + 1] = c]
    ELSE [b EXCEPT !.ovf = TRUE]

RECURSIVE StoreStr(_, _, _)
StoreStr(b, src, k) ==
    IF k = 0 THEN b ELSE Store(StoreStr(b, src, k - 1), k - 1, src[k])

\* OPENSSL_strlcpy(buf, src, size): at most size - 1 characters, then '\0'
OPENSSL_strlcpy(b, src, size) ==
    LET k == IF size > 1
             THEN (IF Len(src) < size - 1 THEN Len(src) ELSE size - 1)
             ELSE 0
    IN  IF size <= 0 THEN b ELSE Store(StoreStr(b, src, k), k, NUL)

\* "%lu" and BN_bn2dec
RECURSIVE Dec(_)
Dec(v) ==
    IF v < 10 THEN <<DigitChars[v + 1]>>
    ELSE Append(Dec(v \div 10), DigitChars[(v % 10) + 1])

\* lines 478-479
obj2txt_begin(b) == IF ~b.null /\ b.len > 0 THEN Store(b, 0, NUL) ELSE b

\* lines 488-492: the name s is copied and its length returned
obj2txt_name(b, s) ==
    [ret |-> Len(s), buf |-> IF ~b.null THEN OPENSSL_strlcpy(b, s, b.len) ELSE b]

\* lines 521-550: one sub-identifier read from p[k..]; next is the index after it
RECURSIVE obj2txt_subid(_, _, _, _, _)
obj2txt_subid(p, k, l, bl, use_bn) ==
    LET c == p[k]
        len == Len(p) - k
        l1 == IF use_bn THEN l ELSE l + (c % 128)
        bl1 == IF use_bn THEN bl + (c % 128) ELSE bl
        promote == ~use_bn /\ l1 > ULONG_MAX \div 128
        bn2 == use_bn \/ promote
        bl2 == IF promote THEN l1 ELSE bl1
    IN  IF len = 0 /\ c >= 128
        THEN [err |-> TRUE, l |-> l, bl |-> bl, use_bn |-> use_bn, next |-> k + 1]
        ELSE IF c < 128
        THEN [err |-> FALSE, l |-> l1, bl |-> bl1, use_bn |-> use_bn, next |-> k + 1]
        ELSE obj2txt_subid(p, k + 1, IF bn2 THEN l1 ELSE l1 * 128,
                           IF bn2 THEN bl2 * 128 ELSE bl2, bn2)

\* lines 587-593 and 603-609
obj2txt_advance(b, i) ==
    IF i > b.len THEN [b EXCEPT !.off = @ + b.len, !.len = 0]
    ELSE [b EXCEPT !.off = @ + i, !.len = @ - i]

\* lines 552-572: the first sub-identifier gives two arcs; [i, l, bl]
obj2txt_first(r) ==
    IF r.l >= 80
    THEN [i |-> 2, l |-> IF r.use_bn THEN r.l ELSE r.l - 80,
          bl |-> IF r.use_bn THEN r.bl - 80 ELSE r.bl]
    ELSE [i |-> r.l \div 40, l |-> r.l - (r.l \div 40) * 40, bl |-> r.bl]

\* lines 566-570
\* a first arc that is written whenever one byte is left
obj2txt_digit_NoRoom(b, i) ==
    IF ~b.null /\ b.len > 0
    THEN [Store(Store(b, 0, DigitChars[i + 1]), 1, NUL) EXCEPT !.off = @ + 1, !.len = @ - 1]
    ELSE b

obj2txt_digit(b, i) ==
    IF ~b.null /\ b.len > 1
    THEN [Store(Store(b, 0, DigitChars[i + 1]), 1, NUL) EXCEPT !.off = @ + 1, !.len = @ - 1]
    ELSE b

\* lines 574-597: a sub-identifier held in the BIGNUM
obj2txt_bn(b, bl) ==
    LET bndec == Dec(bl)
        b1 == IF b.len > 1
              THEN [Store(Store(b, 0, "."), 1, NUL) EXCEPT !.off = @ + 1, !.len = @ - 1]
              ELSE b
    IN  [n |-> 1 + Len(bndec),
         buf |-> IF ~b.null
                 THEN obj2txt_advance(OPENSSL_strlcpy(b1, bndec, b1.len), Len(bndec))
                 ELSE b]

\* lines 598-612: a sub-identifier held in l
obj2txt_ul(b, l) ==
    LET tbuf == <<".">> \o Dec(l)
    IN  [n |-> Len(tbuf),
         buf |-> IF ~b.null /\ b.len > 0
                 THEN obj2txt_advance(OPENSSL_strlcpy(b, tbuf, b.len), Len(tbuf))
                 ELSE b]

\* lines 520-617: the sub-identifiers from p[k] on; nomem: the BIGNUM calls fail
RECURSIVE obj2txt_loop(_, _, _, _, _, _)
obj2txt_loop(p, k, first, b, n, nomem) ==
    IF k > Len(p) THEN [ret |-> n, buf |-> b]
    ELSE LET r == obj2txt_subid(p, k, 0, 0, FALSE)
             f == IF first THEN obj2txt_first(r) ELSE [i |-> 0, l |-> r.l, bl |-> r.bl]
             b1 == IF first THEN obj2txt_digit(b, f.i) ELSE b
             n1 == IF first THEN n + 1 ELSE n
             w == IF r.use_bn THEN obj2txt_bn(b1, f.bl) ELSE obj2txt_ul(b1, f.l)
         IN  IF r.err \/ (r.use_bn /\ nomem) THEN [ret |-> 0 - 1, buf |-> b]
             ELSE obj2txt_loop(p, r.next, FALSE, w.buf, n1 + w.n, nomem)

\* some sub-identifier of p[k..] is promoted to the BIGNUM (line 537)
RECURSIVE NeedsBignum(_, _)
NeedsBignum(p, k) ==
    IF k > Len(p) \/ Len(p) > MaxDerLen THEN FALSE
    ELSE LET r == obj2txt_subid(p, k, 0, 0, FALSE)
         IN  ~r.err /\ (r.use_bn \/ NeedsBignum(p, r.next))

\* lines 495-622: the dotted form of the DER content p
obj2txt_dotted(b, p, nomem) ==
    IF Len(p) > MaxDerLen THEN [ret |-> 0 - 1, buf |-> b]
    ELSE obj2txt_loop(p, 1, TRUE, b, 0, nomem)

\* Codec.der_to_text: OBJ_obj2txt(buf, n + 1, a, 1) on a buffer that holds all of
\* the text; [ok, text]
der_to_text(d) ==
    LET n == obj2txt_dotted(NoBuf, d, FALSE).ret
    IN  IF n < 0 THEN [ok |-> FALSE, text |-> <<>>]
        ELSE [ok |-> TRUE,
              text |-> CStr(obj2txt_dotted(obj2txt_begin(NewBuf(n + 1)), d, FALSE).buf.mem)]

----------------------------------------------------------------------------
(* The built-in table (obj_dat.h), scaled down.                            *)

NUM_NID == 4

Obj(nid, sn, ln, data) == [nid |-> nid, sn |-> sn, ln |-> ln, data |-> data]

\* "2.5.4.3"
DER_CN == <<85, 4, 3>>
\* "2.5.4.10"
DER_O == <<85, 4, 10>>

nid_objs(n) ==
    CASE n = 0 -> Obj(NID_undef, <<"U">>, <<"u">>, <<>>)
      [] n = 1 -> Obj(1, <<"C", "N">>, <<"c", "n">>, DER_CN)
      [] n = 3 -> Obj(3, <<"O">>, <<"o">>, DER_O)
      [] OTHER -> Obj(NID_undef, NULL, NULL, <<>>)

\* the indices that the sorted arrays sn_objs, ln_objs, obj_objs hold
BuiltinIdx == {n \in 1..(NUM_NID - 1) : nid_objs(n).nid # NID_undef}

\* OBJ_bsearch_sn / _ln / _obj: the index found, or -1
OBJ_bsearch_sn(s) ==
    LET hit == {n \in BuiltinIdx : nid_objs(n).sn = s}
    IN  IF hit = {} THEN 0 - 1 ELSE CHOOSE n \in hit : TRUE

OBJ_bsearch_ln(s) ==
    LET hit == {n \in BuiltinIdx : nid_objs(n).ln = s}
    IN  IF hit = {} THEN 0 - 1 ELSE CHOOSE n \in hit : TRUE

\* obj_cmp: length first, then the bytes
OBJ_bsearch_obj(data) ==
    LET hit == {n \in BuiltinIdx :
                   /\ Len(data) - Len(nid_objs(n).data) = 0
                   /\ (Len(data) = 0 \/ data = nid_objs(n).data)}
    IN  IF hit = {} THEN 0 - 1 ELSE CHOOSE n \in hit : TRUE

----------------------------------------------------------------------------
(* The added index: one LHASH keyed by (type, field of the object).        *)

NoObj == [live |-> FALSE, nid |-> 0, sn |-> NULL, ln |-> NULL, data |-> <<>>]

HeapObj(nid, sn, ln, data) ==
    [live |-> TRUE, nid |-> nid, sn |-> sn, ln |-> ln, data |-> data]

\* The hash of a key.  The bit mixing is abstracted to the pair it is computed
\* from: the type (folded into bits 30..31) and the field that is hashed.
added_obj_hash(type, a) ==
    CASE type = ADDED_DATA -> <<type, a.data>>
      [] type = ADDED_SNAME -> <<type, a.sn>>
      [] type = ADDED_LNAME -> <<type, a.ln>>
      [] type = ADDED_NID -> <<type, <<a.nid>>>>
      [] OTHER -> <<0 - 1, <<>>>>

\* 0 when the two records are equal, non-zero otherwise
added_obj_cmp(catype, a, cbtype, b) ==
    IF catype - cbtype # 0 THEN catype - cbtype
    ELSE CASE catype = ADDED_DATA ->
                 IF Len(a.data) - Len(b.data) # 0 THEN Len(a.data) - Len(b.data)
                 ELSE IF a.data = b.data THEN 0 ELSE 1
           [] catype = ADDED_SNAME ->
                 IF a.sn = NULL THEN 0 - 1
                 ELSE IF b.sn = NULL THEN 1
                 ELSE IF a.sn = b.sn THEN 0 ELSE 1
           [] catype = ADDED_LNAME ->
                 IF a.ln = NULL THEN 0 - 1
                 ELSE IF b.ln = NULL THEN 1
                 ELSE IF a.ln = b.ln THEN 0 ELSE 1
           [] catype = ADDED_NID -> a.nid - b.nid
           [] OTHER -> 0

\* An ADDED_OBJ in the table; hash is the hash the table stored at insertion.
Rec(type, o, hp) == [type |-> type, obj |-> o, hash |-> added_obj_hash(type, hp[o])]

NoRec == [type |-> 0 - 2, obj |-> 0, hash |-> <<0 - 2, <<>>>>]

\* lh_ADDED_OBJ_retrieve: the records whose stored hash and comparison match
lh_retrieve(recs, hp, type, key) ==
    {r \in recs : /\ r.hash = added_obj_hash(type, key)
                  /\ added_obj_cmp(type, key, r.type, hp[r.obj]) = 0}

Pick(S) == IF S = {} THEN NoRec ELSE CHOOSE r \in S : TRUE

KeyObj(nid, sn, ln, data) == [nid |-> nid, sn |-> sn, ln |-> ln, data |-> data]

----------------------------------------------------------------------------
(* The lock: ossl_obj_lock behind the run-once guard ossl_obj_lock_init.   *)

FreshLock == [null |-> FALSE, w |-> 0, r |-> {}]

NullLock == [null |-> TRUE, w |-> 0, r |-> {}]

Grant(l, mode, t) ==
    IF mode = "w" THEN [l EXCEPT !.w = t] ELSE [l EXCEPT !.r = @ \cup {t}]

Available(l, mode) ==
    IF mode = "w" THEN l.w = 0 /\ l.r = {} ELSE l.w = 0

\* ossl_obj_write_lock(1) / ossl_obj_read_lock(1): what the call can do in the
\* current state.  res = "got": the lock is held on return; "fail": it returned 0;
\* "crash": the process died.  No outcome: the caller blocks.
\* After objs_free_locks the guard stays run and ossl_obj_lock is NULL: locking the
\* NULL lock is undefined, it traps or reports failure.
LockOutcomes(mode, t) ==
    CASE once = "init" ->
            {[res |-> "got", lock |-> Grant(FreshLock, mode, t), once |-> "ok"],
             [res |-> "fail", lock |-> lock, once |-> "fail"]}
      [] once = "fail" -> {[res |-> "fail", lock |-> lock, once |-> once]}
      [] OTHER ->
            IF lock.null
            THEN {[res |-> "crash", lock |-> lock, once |-> once],
                  [res |-> "fail", lock |-> lock, once |-> once]}
            ELSE IF Available(lock, mode)
            THEN {[res |-> "got", lock |-> Grant(lock, mode, t), once |-> once]}
            ELSE {}

\* ossl_obj_unlock(1)
Unlocked(l, t) ==
    IF l.w = t THEN [l EXCEPT !.w = 0] ELSE [l EXCEPT !.r = @ \ {t}]

----------------------------------------------------------------------------
(* Threads.  A thread is idle, inside a call (pc names the next step) or    *)
(* done, holding the call's result until it makes its next call.            *)

NullPtr == [tab |-> "null", ix |-> 0]

\* a char pointer into a buffer is an offset; this one is NULL
NullOff == 0 - 1

BuiltinPtr(n) == [tab |-> "builtin", ix |-> n]

AddedPtr(o) == [tab |-> "added", ix |-> o]

NoAop == [i \in ADDED_DATA..ADDED_NID |-> NoRec]

EmptyHeap == [o \in 1..MaxObjs |-> NoObj]

NullAdded == [null |-> TRUE, recs |-> {}]

\* what cleanup3_doall has done: the ASN1_OBJECT_free calls per heap slot, and
\* whether it read an object that was already freed
NoSweep == [freed |-> [o \in 1..MaxObjs |-> 0], uaf |-> FALSE]

\* the registry as a call found it
NoSnap == [added |-> NullAdded, heap |-> EmptyHeap, new_nid |-> 0]

Snap == [added |-> added, heap |-> heap, new_nid |-> new_nid]

Idle ==
    [pc |-> "idle", op |-> "", oid |-> NULL, sn |-> NULL, ln |-> NULL, s |-> NULL,
     n |-> 0, data |-> <<>>, no_name |-> FALSE, lk |-> "", k |-> "",
     o |-> 0, i |-> 0, aop |-> NoAop, lockarg |-> FALSE,
     ret |-> 0, robj |-> NullPtr, err |-> {}, before |-> NoSnap,
     a |-> Obj(NID_undef, NULL, NULL, <<>>), buf |-> NoBuf, nomem |-> FALSE,
     bulk |-> FALSE, in |-> <<>>, pos |-> 0, cbuf |-> <<>>, l |-> NullOff, num |-> 0,
     calls |-> <<>>, sweep |-> NoSweep]

\* t is in the sweeps of ossl_obj_cleanup_int or about to free the table
InSweep(t) == th[t].pc \in {"cl2", "cl3", "cl4"}

\* u is at the added table: a lookup under the read lock, or an insertion
InsideTable(u) == th[u].pc \in {"lk_in", "ao_loop", "cr_locked"}

\* the sweep runs while another thread is at the table: a data race, beyond which
\* the process is not followed
DataRace == \E t \in Threads, u \in Threads : t # u /\ InSweep(t) /\ InsideTable(u)

CanCall(t) == crashed = "" /\ ~DataRace /\ th[t].pc \in {"idle", "done"}

At(t, pc) == crashed = "" /\ ~DataRace /\ th[t].pc = pc

\* ERR_raise
Raise(thr, e) == [thr EXCEPT !.err = @ \cup {e}]

\* the call returns: to its caller, or to the loop of OBJ_create_objects (line 773)
Return(thr, ret, robj) ==
    [thr EXCEPT !.pc = IF thr.bulk THEN "co_ret" ELSE "done",
                !.ret = ret, !.robj = robj, !.lk = "", !.k = "",
                !.o = 0, !.i = 0, !.aop = NoAop, !.lockarg = FALSE]

\* a lookup begins: kind "sn" | "ln" | "nid" | "der", continuing at k
Lookup(thr, kind, k) == [thr EXCEPT !.pc = "lk", !.lk = kind, !.k = k]

\* OBJ_txt2obj past the name lookups (lines 437-465): the object parsed, or NULL
\* a parse that reports nothing for a name it does not know
txt2obj_parse_Silent(s, no_name) ==
    IF ~no_name /\ (s = <<>> \/ ~ossl_isdigit(s[1]))
    THEN [ok |-> FALSE, err |-> {}, data |-> <<>>]
    ELSE LET r == text_to_der(s)
         IN  IF r.ok /\ Len(r.der) > 0
             THEN [ok |-> TRUE, err |-> {}, data |-> r.der]
             ELSE [ok |-> FALSE, err |-> {"ASN1_R_INVALID_OID"}, data |-> <<>>]

txt2obj_parse(s, no_name) ==
    IF ~no_name /\ (s = <<>> \/ ~ossl_isdigit(s[1]))
    THEN [ok |-> FALSE, err |-> {"OBJ_R_UNKNOWN_OBJECT_NAME"}, data |-> <<>>]
    ELSE LET r == text_to_der(s)
         IN  IF r.ok /\ Len(r.der) > 0
             THEN [ok |-> TRUE, err |-> {}, data |-> r.der]
             ELSE [ok |-> FALSE, err |-> {"ASN1_R_INVALID_OID"}, data |-> <<>>]

\* the object a pointer returned by a lookup points to
Deref(ptr) == IF ptr.tab = "builtin" THEN nid_objs(ptr.ix) ELSE heap[ptr.ix]

\* OBJ_nid2ln / OBJ_nid2sn: the field of the object OBJ_nid2obj returned, or NULL
nid2name(ptr, field) ==
    IF ptr = NullPtr THEN NULL
    ELSE IF field = "ln" THEN Deref(ptr).ln ELSE Deref(ptr).sn

\* OBJ_obj2txt, lines 488-622: the name s if there is one, else the dotted form
obj2txt_end(thr, s) ==
    LET r == IF s # NULL THEN obj2txt_name(thr.buf, s)
             ELSE obj2txt_dotted(thr.buf, thr.data, thr.nomem)
    IN  Return([thr EXCEPT !.buf = r.buf], r.ret, NullPtr)

\* What the caller does with the result of a lookup (res: a NID; ptr: an object).
Finish(thr, res, ptr) ==
    CASE thr.k = "cr_sn" ->
            \* OBJ_create, line 791
            IF res # NID_undef
            THEN Return(Raise(thr, "OBJ_R_OID_EXISTS"), 0, NullPtr)
            ELSE IF thr.ln # NULL
            THEN Lookup([thr EXCEPT !.s = thr.ln], "ln", "cr_ln")
            ELSE [thr EXCEPT !.pc = "cr_txt", !.lk = "", !.k = ""]
      [] thr.k = "cr_ln" ->
            \* OBJ_create, line 792
            IF res # NID_undef
            THEN Return(Raise(thr, "OBJ_R_OID_EXISTS"), 0, NullPtr)
            ELSE [thr EXCEPT !.pc = "cr_txt", !.lk = "", !.k = ""]
      [] thr.k = "tx_sn" ->
            \* OBJ_txt2obj, line 433
            IF res # NID_undef
            THEN Lookup([thr EXCEPT !.n = res], "nid", "ret")
            ELSE Lookup(thr, "ln", "tx_ln")
      [] thr.k = "tx_ln" ->
            \* OBJ_txt2obj, lines 434-465
            IF res # NID_undef
            THEN Lookup([thr EXCEPT !.n = res], "nid", "ret")
            ELSE LET r == txt2obj_parse(thr.s, FALSE)
                 IN  Return([thr EXCEPT !.err = @ \cup r.err, !.data = r.data],
                            0, IF r.ok THEN [tab |-> "new", ix |-> 0] ELSE NullPtr)
      [] thr.k = "t2_nid" ->
            \* OBJ_obj2txt, lines 484-485
            IF res # NID_undef
            THEN Lookup([thr EXCEPT !.n = res], "nid", "t2_ln")
            ELSE obj2txt_end(thr, NULL)
      [] thr.k = "t2_ln" ->
            \* OBJ_obj2txt, lines 485-487
            IF nid2name(ptr, "ln") # NULL
            THEN obj2txt_end(thr, nid2name(ptr, "ln"))
            ELSE Lookup(thr, "nid", "t2_sn")
      [] thr.k = "t2_sn" ->
            \* OBJ_obj2txt, lines 487-493
            obj2txt_end(thr, nid2name(ptr, "sn"))
      [] OTHER -> Return(thr, res, ptr)

\* The part of a lookup that needs no lock: [hit, res, ptr].
\* OBJ_sn2nid 671-674, OBJ_ln2nid 644-647, ossl_obj_obj2nid 392-401,
\* OBJ_nid2obj 335-337.
BuiltinLookup(kind, s, n, data) ==
    CASE kind = "sn" ->
            LET op == OBJ_bsearch_sn(s)
            IN  IF op >= 0
                THEN [hit |-> TRUE, res |-> nid_objs(op).nid, ptr |-> NullPtr]
                ELSE [hit |-> FALSE, res |-> NID_undef, ptr |-> NullPtr]
      [] kind = "ln" ->
            LET op == OBJ_bsearch_ln(s)
            IN  IF op >= 0
                THEN [hit |-> TRUE, res |-> nid_objs(op).nid, ptr |-> NullPtr]
                ELSE [hit |-> FALSE, res |-> NID_undef, ptr |-> NullPtr]
      [] kind = "der" ->
            IF n # NID_undef THEN [hit |-> TRUE, res |-> n, ptr |-> NullPtr]
            ELSE IF Len(data) = 0
            THEN [hit |-> TRUE, res |-> NID_undef, ptr |-> NullPtr]
            ELSE LET op == OBJ_bsearch_obj(data)
                 IN  IF op >= 0
                     THEN [hit |-> TRUE, res |-> nid_objs(op).nid, ptr |-> NullPtr]
                     ELSE [hit |-> FALSE, res |-> NID_undef, ptr |-> NullPtr]
      [] OTHER ->
            IF n = NID_undef \/ (n > 0 /\ n < NUM_NID /\ nid_objs(n).nid # NID_undef)
            THEN [hit |-> TRUE, res |-> n, ptr |-> BuiltinPtr(n)]
            ELSE [hit |-> FALSE, res |-> NID_undef, ptr |-> NullPtr]

LookupType(kind) ==
    CASE kind = "sn" -> ADDED_SNAME
      [] kind = "ln" -> ADDED_LNAME
      [] kind = "der" -> ADDED_DATA
      [] OTHER -> ADDED_NID

\* The probe of the added table, made under the read lock: [res, ptr].
\* OBJ_sn2nid 679-685, OBJ_ln2nid 652-658, ossl_obj_obj2nid 406-412,
\* OBJ_nid2obj 346-350.
AddedLookup(ad, hp, kind, s, n, data) ==
    LET key == KeyObj(n, s, s, data)
        adp == IF ad.null THEN NoRec
               ELSE Pick(lh_retrieve(ad.recs, hp, LookupType(kind), key))
    IN  IF adp = NoRec THEN [res |-> NID_undef, ptr |-> NullPtr]
        ELSE [res |-> hp[adp.obj].nid, ptr |-> AddedPtr(adp.obj)]

----------------------------------------------------------------------------
(* Lookups: OBJ_sn2nid, OBJ_ln2nid, OBJ_obj2nid, OBJ_nid2obj, OBJ_txt2obj  *)

Others(t) == Threads \ {t}

\* an ossl_obj_unlock that returns without unlocking
UnlockOutcomes_Kept(t) == {[crash |-> FALSE, lock |-> lock]}

\* ossl_obj_unlock(1): on the lock that objs_free_locks has freed and set to NULL,
\* unlocking is undefined: it traps or does nothing.
UnlockOutcomes(t) ==
    IF lock.null
    THEN {[crash |-> TRUE, lock |-> lock], [crash |-> FALSE, lock |-> lock]}
    ELSE {[crash |-> FALSE, lock |-> Unlocked(lock, t)]}

OBJ_sn2nid(t, s) ==
    /\ CanCall(t)
    /\ th' = [th EXCEPT ![t] = Lookup([Idle EXCEPT !.op = "OBJ_sn2nid", !.s = s], "sn", "ret")]
    /\ UNCHANGED <<tsan_locking, added, heap, lock, once, new_nid, crashed, handed, shut>>

OBJ_ln2nid(t, s) ==
    /\ CanCall(t)
    /\ th' = [th EXCEPT ![t] = Lookup([Idle EXCEPT !.op = "OBJ_ln2nid", !.s = s], "ln", "ret")]
    /\ UNCHANGED <<tsan_locking, added, heap, lock, once, new_nid, crashed, handed, shut>>

\* a: an object given by its nid and data
OBJ_obj2nid(t, anid, adata) ==
    /\ CanCall(t)
    /\ th' = [th EXCEPT ![t] = Lookup([Idle EXCEPT !.op = "OBJ_obj2nid", !.n = anid,
                                                   !.data = adata], "der", "ret")]
    /\ UNCHANGED <<tsan_locking, added, heap, lock, once, new_nid, crashed, handed, shut>>

OBJ_nid2obj(t, n) ==
    /\ CanCall(t)
    /\ th' = [th EXCEPT ![t] = Lookup([Idle EXCEPT !.op = "OBJ_nid2obj", !.n = n], "nid", "ret")]
    /\ UNCHANGED <<tsan_locking, added, heap, lock, once, new_nid, crashed, handed, shut>>

OBJ_txt2obj(t, s, no_name) ==
    /\ CanCall(t)
    /\ LET thr == [Idle EXCEPT !.op = "OBJ_txt2obj", !.s = s, !.no_name = no_name]
           r == txt2obj_parse(s, TRUE)
       IN  th' = [th EXCEPT ![t] =
                     IF no_name
                     THEN Return([thr EXCEPT !.err = r.err, !.data = r.data], 0,
                                 IF r.ok THEN [tab |-> "new", ix |-> 0] ELSE NullPtr)
                     ELSE Lookup(thr, "sn", "tx_sn")]
    /\ UNCHANGED <<tsan_locking, added, heap, lock, once, new_nid, crashed, handed, shut>>

\* a: the object; b: the caller's buffer (NoBuf: buf == NULL); nomem: the BIGNUM
\* calls of this call fail, drawn for the contents that need one
OBJ_obj2txt(t, a, no_name, b, nomem) ==
    /\ CanCall(t)
    /\ nomem => NeedsBignum(a.data, 1)
    /\ LET thr == [Idle EXCEPT !.op = "OBJ_obj2txt", !.a = a, !.n = a.nid,
                               !.data = a.data, !.no_name = no_name,
                               !.buf = obj2txt_begin(b), !.nomem = nomem]
       IN  th' = [th EXCEPT ![t] =
                     IF a.data = <<>> THEN Return(thr, 0, NullPtr)
                     ELSE IF ~no_name THEN Lookup(thr, "der", "t2_nid")
                     ELSE obj2txt_end(thr, NULL)]
    /\ UNCHANGED <<tsan_locking, added, heap, lock, once, new_nid, crashed, handed, shut>>

\* A lookup up to the point where it holds the read lock.
\* a lookup that goes to the added table without taking the read lock
LookupEnter_NoLock(t) ==
    /\ At(t, "lk")
    /\ LET thr == th[t]
           b == BuiltinLookup(thr.lk, thr.s, thr.n, thr.data)
       IN  th' = [th EXCEPT ![t] = IF b.hit THEN Finish(thr, b.res, b.ptr)
                                   ELSE [thr EXCEPT !.pc = "lk_in"]]
    /\ UNCHANGED <<tsan_locking, added, heap, lock, once, new_nid, crashed, handed, shut>>

LookupEnter(t) ==
    /\ At(t, "lk")
    /\ LET thr == th[t]
           b == BuiltinLookup(thr.lk, thr.s, thr.n, thr.data)
       IN  IF b.hit
           THEN /\ th' = [th EXCEPT ![t] = Finish(thr, b.res, b.ptr)]
                /\ UNCHANGED <<tsan_locking, lock, once, crashed>>
           ELSE \E out \in LockOutcomes("r", t) :
                   /\ lock' = out.lock
                   /\ once' = out.once
                   /\ crashed' = IF out.res = "crash" THEN "lock" ELSE crashed
                   /\ th' = [th EXCEPT ![t] =
                                CASE out.res = "got" -> [thr EXCEPT !.pc = "lk_in"]
                                  [] out.res = "fail" ->
                                        Finish(Raise(thr, "ERR_R_UNABLE_TO_GET_READ_LOCK"),
                                               NID_undef, NullPtr)
                                  [] OTHER -> thr]
    /\ UNCHANGED <<tsan_locking, added, heap, new_nid, handed, shut>>

\* The probe of the added table and the unlock.
LookupInside(t) ==
    /\ At(t, "lk_in")
    /\ LET thr == th[t]
           r == AddedLookup(added, heap, thr.lk, thr.s, thr.n, thr.data)
           unknown == thr.lk = "nid" /\ r.ptr = NullPtr
       IN  \E ul \in UnlockOutcomes(t) :
              /\ lock' = ul.lock
              /\ crashed' = IF ul.crash THEN "lock" ELSE crashed
              /\ th' = [th EXCEPT ![t] =
                           IF ul.crash THEN thr
                           ELSE IF unknown
                           THEN Finish(Raise(thr, "OBJ_R_UNKNOWN_NID"), r.res, r.ptr)
                           ELSE Finish(thr, r.res, r.ptr)]
    /\ UNCHANGED <<tsan_locking, added, heap, once, new_nid, handed, shut>>

----------------------------------------------------------------------------
(* The NID allocator: obj_new_nid_unlocked, OBJ_new_nid                    *)

\* i = new_nid; new_nid += num; return i  (tsan_add is the same fetch-and-add)
\* an allocator that moves on by one whatever the request
obj_new_nid_unlocked_ByOne(num) == [ret |-> new_nid, next |-> new_nid + 1]

obj_new_nid_unlocked(num) == [ret |-> new_nid, next |-> new_nid + num]

\* NIDs that the calls in flight may still take
Pending(u) ==
    IF th[u].op = "OBJ_create" /\ th[u].pc \in {"lk", "lk_in", "cr_txt", "cr_locked"}
    THEN 1
    ELSE IF th[u].op = "OBJ_new_nid" /\ th[u].pc \in {"nn_wlock", "nn_locked", "nn_add"}
    THEN th[u].n
    ELSE 0

RoomForNids(t, num) ==
    \A u \in Others(t) : new_nid + num + Pending(u) <= NUM_NID + MaxAlloc

\* OBJ_new_nid: line 259 where tsan_add is atomic, else lines 245-257
OBJ_new_nid(t, num) ==
    /\ CanCall(t)
    /\ RoomForNids(t, num)
    /\ LET thr == [Idle EXCEPT !.op = "OBJ_new_nid", !.n = num]
           a == obj_new_nid_unlocked(num)
       IN  IF tsan_locking
           THEN /\ th' = [th EXCEPT ![t] = [thr EXCEPT !.pc = "nn_wlock"]]
                /\ UNCHANGED <<tsan_locking, new_nid, handed>>
           ELSE /\ th' = [th EXCEPT ![t] = Return(thr, a.ret, NullPtr)]
                /\ new_nid' = a.next
                /\ handed' = Append(handed, [base |-> a.ret, num |-> num])
    /\ UNCHANGED <<tsan_locking, added, heap, lock, once, crashed, shut>>

\* an OBJ_new_nid that goes on without the write lock
NewNidLock_NoLock(t) ==
    /\ At(t, "nn_wlock")
    /\ th' = [th EXCEPT ![t] = [@ EXCEPT !.pc = "nn_locked"]]
    /\ once' = "ok"
    /\ lock' = IF lock.null THEN FreshLock ELSE lock
    /\ UNCHANGED <<tsan_locking, added, heap, new_nid, crashed, handed, shut>>

\* OBJ_new_nid, TSAN_REQUIRES_LOCKING: lines 248-251
NewNidLock(t) ==
    /\ At(t, "nn_wlock")
    /\ \E out \in LockOutcomes("w", t) :
          /\ lock' = out.lock
          /\ once' = out.once
          /\ crashed' = IF out.res = "crash" THEN "lock" ELSE crashed
          /\ th' = [th EXCEPT ![t] =
                       CASE out.res = "got" -> [@ EXCEPT !.pc = "nn_locked"]
                         [] out.res = "fail" ->
                               Return(Raise(@, "ERR_R_UNABLE_TO_GET_WRITE_LOCK"),
                                      NID_undef, NullPtr)
                         [] OTHER -> @]
    /\ UNCHANGED <<tsan_locking, added, heap, new_nid, handed, shut>>

\* obj_new_nid_unlocked, TSAN_REQUIRES_LOCKING: line 233, i = new_nid
NewNidLocked(t) ==
    /\ At(t, "nn_locked")
    /\ th' = [th EXCEPT ![t] = [@ EXCEPT !.pc = "nn_add", !.i = new_nid]]
    /\ UNCHANGED <<tsan_locking, added, heap, lock, once, new_nid, crashed, handed, shut>>

\* obj_new_nid_unlocked, TSAN_REQUIRES_LOCKING: lines 234-235, new_nid += num and
\* return i; then OBJ_new_nid's lines 254-256
NewNidAdd(t) ==
    /\ At(t, "nn_add")
    /\ \E ul \in UnlockOutcomes(t) :
          /\ new_nid' = new_nid + th[t].n
          /\ handed' = Append(handed, [base |-> th[t].i, num |-> th[t].n])
          /\ lock' = ul.lock
          /\ crashed' = IF ul.crash THEN "lock" ELSE crashed
          /\ th' = [th EXCEPT ![t] = IF ul.crash THEN @ ELSE Return(@, @.i, NullPtr)]
    /\ UNCHANGED <<tsan_locking, added, heap, once, shut>>

----------------------------------------------------------------------------
(* ossl_obj_add_object: the insertion of an object's records               *)

FreeSlots == {o \in 1..MaxObjs : ~heap[o].live}

NeedsSlot(u) ==
    /\ th[u].op \in {"OBJ_create", "OBJ_add_object"}
    /\ th[u].pc \notin {"idle", "done"}
    /\ th[u].o = 0

RoomForObj(t) == Cardinality(FreeSlots) > Cardinality({u \in Others(t) : NeedsSlot(u)})

\* ao[i] != NULL: lines 271-278
\* a loop that leaves the long name out
Present_NoLname(obj, i) ==
    CASE i = ADDED_DATA -> Len(obj.data) # 0
      [] i = ADDED_SNAME -> obj.sn # NULL
      [] i = ADDED_LNAME -> FALSE
      [] OTHER -> TRUE

Present(obj, i) ==
    CASE i = ADDED_DATA -> Len(obj.data) # 0
      [] i = ADDED_SNAME -> obj.sn # NULL
      [] i = ADDED_LNAME -> obj.ln # NULL
      [] OTHER -> TRUE

FirstPresent(obj, i) == CHOOSE j \in i..ADDED_NID :
                           Present(obj, j) /\ \A k \in i..(j - 1) : ~Present(obj, k)

\* lh_ADDED_OBJ_insert: the record replaces any record equal to it
lh_insert(recs, hp, rec) == (recs \ lh_retrieve(recs, hp, rec.type, hp[rec.obj])) \cup {rec}

\* lh_ADDED_OBJ_delete
lh_delete(recs, hp, type, key) == recs \ lh_retrieve(recs, hp, type, key)

\* aop[i]->type = i, on the record evicted for index i
Restore(recs, prev, i) ==
    IF prev = NoRec THEN recs ELSE (recs \ {prev}) \cup {[prev EXCEPT !.type = i]}

\* lines 304-308: while (i-- > ADDED_DATA) { delete ao[i]; restore aop[i] }, for the
\* indices from i - 1 down to stop.  An index whose ao[i] is NULL is skipped here;
\* RollbackUB says when the loop meets one.
RECURSIVE Rollback(_, _, _, _, _, _)
Rollback(recs, hp, o, i, aop, stop) ==
    IF i <= stop THEN recs
    ELSE LET j == i - 1
         IN  IF Present(hp[o], j)
             THEN Rollback(Restore(lh_delete(recs, hp, j, hp[o]), aop[j], j),
                           hp, o, j, aop, stop)
             ELSE Rollback(recs, hp, o, j, aop, stop)

\* The rollback loop runs over every index below i, also those with ao[j] == NULL
\* and aop[j] never set: lh_delete(added, NULL) dereferences NULL in added_obj_hash.
RollbackUB(obj, i) == \E j \in ADDED_DATA..(i - 1) : ~Present(obj, j)

\* the first index the rollback loop meets whose ao[j] is NULL
FirstAbsentBelow(obj, i) ==
    CHOOSE j \in ADDED_DATA..(i - 1) :
        ~Present(obj, j) /\ \A k \in (j + 1)..(i - 1) : Present(obj, k)

\* The object of a call in flight: tmpoid / obj as OBJ_dup copies it
PendingObj(thr) == HeapObj(thr.n, thr.sn, thr.ln, thr.data)

\* Lines 285-292 and the entry to the loop: the table is created on first use and
\* the copy o enters the heap.
EnterLoop(t, thr) ==
    LET o == CHOOSE x \in FreeSlots : TRUE
    IN  /\ heap' = [heap EXCEPT ![o] = PendingObj(thr)]
        /\ added' = [added EXCEPT !.null = FALSE]
        /\ th' = [th EXCEPT ![t] = [thr EXCEPT !.pc = "ao_loop", !.o = o,
                                               !.i = FirstPresent(PendingObj(thr), ADDED_DATA)]]

\* One turn of the loop of lines 293-313, for an index whose ao[i] is set; after the
\* last index, lines 314-319 (and OBJ_create's lines 834-840).  On a failed insert,
\* the rollback of lines 302-310 and the exit through err (and lines 834-840).
AddLoop(t) ==
    /\ At(t, "ao_loop")
    /\ LET thr == th[t]
           o == thr.o
           i == thr.i
           prev == Pick(lh_retrieve(added.recs, heap, i, heap[o]))
           gone == [prev EXCEPT !.type = ADDED_INVALID]
           evicted == IF prev = NoRec THEN added.recs
                      ELSE (added.recs \ {prev}) \cup {gone}
           aop == [thr.aop EXCEPT ![i] = IF prev = NoRec THEN NoRec ELSE gone]
       IN  \E failed \in BOOLEAN, ul \in UnlockOutcomes(t), trap \in BOOLEAN :
              IF ~failed
              THEN /\ ~trap
                   /\ added' = [added EXCEPT !.recs = lh_insert(evicted, heap, Rec(i, o, heap))]
                   /\ heap' = heap
                   /\ IF i = ADDED_NID
                      THEN /\ lock' = ul.lock
                           /\ crashed' = IF ul.crash THEN "lock" ELSE crashed
                           /\ th' = [th EXCEPT ![t] =
                                        IF ul.crash THEN [thr EXCEPT !.aop = aop]
                                        ELSE Return(thr, heap[o].nid, NullPtr)]
                      ELSE /\ ul = CHOOSE x \in UnlockOutcomes(t) : TRUE
                           /\ th' = [th EXCEPT ![t] =
                                        [thr EXCEPT !.aop = aop,
                                                    !.i = FirstPresent(heap[o], i + 1)]]
                           /\ UNCHANGED <<tsan_locking, lock, crashed>>
              ELSE IF trap
              THEN /\ RollbackUB(heap[o], i)
                   /\ ul = CHOOSE x \in UnlockOutcomes(t) : TRUE
                   /\ crashed' = "rollback"
                   /\ added' = [added EXCEPT !.recs =
                                   Rollback(Restore(evicted, aop[i], i), heap, o, i, aop,
                                            FirstAbsentBelow(heap[o], i) + 1)]
                   /\ th' = [th EXCEPT ![t] = [thr EXCEPT !.aop = aop]]
                   /\ UNCHANGED <<tsan_locking, heap, lock>>
              ELSE /\ added' = [added EXCEPT !.recs =
                                   Rollback(Restore(evicted, aop[i], i), heap, o, i, aop,
                                            ADDED_DATA)]
                   /\ heap' = [heap EXCEPT ![o] = NoObj]
                   /\ lock' = ul.lock
                   /\ crashed' = IF ul.crash THEN "lock" ELSE crashed
                   /\ th' = [th EXCEPT ![t] =
                                Return(Raise(thr, "ERR_R_CRYPTO_LIB"), NID_undef, NullPtr)]
    /\ UNCHANGED <<tsan_locking, once, new_nid, handed, shut>>

\* OBJ_add_object(obj): lines 269-279 (the allocations), then the write lock
OBJ_add_object(t, obj) ==
    /\ CanCall(t)
    /\ RoomForObj(t)
    /\ LET thr == [Idle EXCEPT !.op = "OBJ_add_object", !.n = obj.nid, !.sn = obj.sn,
                               !.ln = obj.ln, !.data = obj.data, !.lockarg = TRUE,
                               !.before = Snap]
       IN  \E nomem \in BOOLEAN :
              th' = [th EXCEPT ![t] =
                        IF nomem
                        THEN Return(Raise(thr, "ERR_R_MALLOC_FAILURE"), NID_undef, NullPtr)
                        ELSE [thr EXCEPT !.pc = "ao_wlock"]]
    /\ UNCHANGED <<tsan_locking, added, heap, lock, once, new_nid, crashed, handed, shut>>

\* lines 281-292
AddLock(t) ==
    /\ At(t, "ao_wlock")
    /\ \E out \in LockOutcomes("w", t), lh_new_fails \in BOOLEAN :
          /\ once' = out.once
          /\ crashed' = IF out.res = "crash" THEN "lock" ELSE crashed
          /\ CASE out.res = "got" /\ ~lh_new_fails ->
                     /\ lock' = out.lock
                     /\ EnterLoop(t, th[t])
               [] out.res = "got" /\ lh_new_fails ->
                     /\ added.null
                     /\ lock' = Unlocked(out.lock, t)
                     /\ th' = [th EXCEPT ![t] =
                                  Return(Raise(@, "ERR_R_CRYPTO_LIB"), NID_undef, NullPtr)]
                     /\ UNCHANGED <<tsan_locking, added, heap>>
               [] out.res = "fail" ->
                     /\ ~lh_new_fails
                     /\ lock' = out.lock
                     /\ th' = [th EXCEPT ![t] =
                                  Return(Raise(@, "ERR_R_UNABLE_TO_GET_WRITE_LOCK"),
                                         NID_undef, NullPtr)]
                     /\ UNCHANGED <<tsan_locking, added, heap>>
               [] OTHER ->
                     /\ ~lh_new_fails
                     /\ lock' = out.lock
                     /\ UNCHANGED <<tsan_locking, added, heap, th>>
    /\ UNCHANGED <<tsan_locking, new_nid, handed, shut>>

----------------------------------------------------------------------------
(* OBJ_create                                                              *)

\* lines 784-795: the argument check, then the name checks by OBJ_sn2nid, OBJ_ln2nid
\* lines 785-795: OBJ_create(thr.oid, thr.sn, thr.ln) up to its first lookup
create_begin(thr) ==
    IF thr.oid = NULL /\ thr.sn = NULL /\ thr.ln = NULL
    THEN Return(Raise(thr, "ERR_R_PASSED_INVALID_ARGUMENT"), 0, NullPtr)
    ELSE IF thr.sn # NULL THEN Lookup([thr EXCEPT !.s = thr.sn], "sn", "cr_sn")
    ELSE IF thr.ln # NULL THEN Lookup([thr EXCEPT !.s = thr.ln], "ln", "cr_ln")
    ELSE [thr EXCEPT !.pc = "cr_txt"]

OBJ_create(t, oid, sn, ln) ==
    /\ CanCall(t)
    /\ RoomForObj(t)
    /\ RoomForNids(t, 1)
    /\ th' = [th EXCEPT ![t] =
                 create_begin([Idle EXCEPT !.op = "OBJ_create", !.oid = oid, !.sn = sn,
                                           !.ln = ln, !.before = Snap])]
    /\ UNCHANGED <<tsan_locking, added, heap, lock, once, new_nid, crashed, handed, shut>>

\* lines 797-815: tmpoid is parsed (or allocated empty), then the write lock
CreateTxt(t) ==
    /\ At(t, "cr_txt")
    /\ LET thr == th[t]
           r == IF thr.oid # NULL THEN txt2obj_parse(thr.oid, TRUE)
                ELSE [ok |-> TRUE, err |-> {}, data |-> <<>>]
       IN  IF ~r.ok
           THEN /\ th' = [th EXCEPT ![t] = Return([thr EXCEPT !.err = @ \cup r.err], 0, NullPtr)]
                /\ UNCHANGED <<tsan_locking, lock, once, crashed>>
           ELSE \E nomem \in BOOLEAN :
                   IF nomem
                   THEN /\ th' = [th EXCEPT ![t] =
                                     Return(Raise(Raise(thr, "ERR_R_MALLOC_FAILURE"),
                                                  IF thr.oid = NULL THEN "ERR_R_ASN1_LIB"
                                                  ELSE "ERR_R_MALLOC_FAILURE"), 0, NullPtr)]
                        /\ UNCHANGED <<tsan_locking, lock, once, crashed>>
                   ELSE \E out \in LockOutcomes("w", t) :
                           /\ lock' = out.lock
                           /\ once' = out.once
                           /\ crashed' = IF out.res = "crash" THEN "lock" ELSE crashed
                           /\ th' = [th EXCEPT ![t] =
                                        CASE out.res = "got" ->
                                                [thr EXCEPT !.pc = "cr_locked", !.data = r.data]
                                          [] out.res = "fail" ->
                                                Return(Raise(thr, "ERR_R_UNABLE_TO_GET_WRITE_LOCK"),
                                                       0, NullPtr)
                                          [] OTHER -> thr]
    /\ UNCHANGED <<tsan_locking, added, heap, new_nid, handed, shut>>

\* ossl_obj_obj2nid(tmpoid, 0): tmpoid->nid is NID_undef
obj2nid_nolock(data) ==
    LET b == BuiltinLookup("der", NULL, NID_undef, data)
    IN  IF b.hit THEN b.res
        ELSE AddedLookup(added, heap, "der", NULL, NID_undef, data).res

\* lines 817-832 under the write lock: the DER check, the new NID, and
\* ossl_obj_add_object(tmpoid, 0) up to its loop (lines 269-292)
CreateLocked(t) ==
    /\ At(t, "cr_locked")
    /\ LET thr == th[t]
           a == obj_new_nid_unlocked(1)
       IN  IF thr.oid # NULL /\ obj2nid_nolock(thr.data) # NID_undef
           THEN \E ul \in UnlockOutcomes(t) :
                   /\ lock' = ul.lock
                   /\ crashed' = IF ul.crash THEN "lock" ELSE crashed
                   /\ th' = [th EXCEPT ![t] =
                                IF ul.crash THEN thr
                                ELSE Return(Raise(thr, "OBJ_R_OID_EXISTS"), 0, NullPtr)]
                   /\ UNCHANGED <<tsan_locking, added, heap, new_nid, handed>>
           ELSE /\ new_nid' = a.next
                /\ handed' = Append(handed, [base |-> a.ret, num |-> 1])
                /\ \E how \in {"ok", "nomem", "lh_new"}, ul \in UnlockOutcomes(t) :
                      IF how = "ok" /\ a.ret # NID_undef
                      THEN /\ ul = CHOOSE x \in UnlockOutcomes(t) : TRUE
                           /\ EnterLoop(t, [thr EXCEPT !.n = a.ret])
                           /\ UNCHANGED <<tsan_locking, lock, crashed>>
                      ELSE /\ how = "lh_new" => added.null
                           /\ lock' = ul.lock
                           /\ crashed' = IF ul.crash THEN "lock" ELSE crashed
                           /\ th' = [th EXCEPT ![t] =
                                        IF ul.crash THEN thr
                                        ELSE IF how = "lh_new" /\ a.ret # NID_undef
                                        THEN Return(Raise(thr, "ERR_R_CRYPTO_LIB"), 0, NullPtr)
                                        ELSE Return(Raise(thr, "ERR_R_MALLOC_FAILURE"),
                                                    0, NullPtr)]
                           /\ UNCHANGED <<tsan_locking, added, heap>>
    /\ UNCHANGED <<tsan_locking, once, shut>>

----------------------------------------------------------------------------
(* OBJ_create_objects: one OBJ_create per line of the stream.               *)
(* The stream is a sequence of lines, each ending in a newline and shorter  *)
(* than buf; buf is held up to the last cell ever written, and o, s, l are  *)
(* offsets into it.                                                         *)

ossl_isspace(c) == c \in {" ", "\t", "\n", "\r"}

ossl_isalnum(c) == ossl_isdigit(c) \/ c \in {"a", "b", "x", "y"}

\* BIO_gets(in, buf, 512) for the next line: the line, a NUL, and behind it what
\* the earlier lines left in buf
BIO_gets(buf, line) == line \o <<NUL>> \o SubSeq(buf, Len(line) + 2, Len(buf))

\* the string at offset p of buf
CStrAt(buf, p) == CStr(SubSeq(buf, p + 1, Len(buf)))

\* while (class(*p)) p++, for the scans of lines 745, 749, 755 and 759
RECURSIVE co_scan(_, _, _)
co_scan(buf, p, class) ==
    LET c == buf[p + 1]
        in == CASE class = "oid" -> ossl_isdigit(c) \/ c = "."
                [] class = "space" -> ossl_isspace(c)
                [] OTHER -> c # NUL /\ ~ossl_isspace(c)
    IN  IF in THEN co_scan(buf, p + 1, class) ELSE p

\* lines 741-772 on the line just read into buf (i characters), with l as the
\* line before left it: [stop, buf, s, l]; o is offset 0
co_parse(buf0, i, l0) ==
    LET buf1 == [buf0 EXCEPT ![i] = NUL]
        s1 == co_scan(buf1, 0, "oid")
        buf2 == [buf1 EXCEPT ![s1 + 1] = NUL]
        s2 == co_scan(buf2, s1 + 1, "space")
        l1 == co_scan(buf2, s2, "token")
        buf3 == [buf2 EXCEPT ![l1 + 1] = NUL]
        l2 == co_scan(buf3, l1 + 1, "space")
        r == IF buf1[s1 + 1] = NUL THEN [buf |-> buf1, s |-> NullOff, l |-> l0]
             ELSE IF buf2[s2 + 1] = NUL THEN [buf |-> buf2, s |-> NullOff, l |-> l0]
             ELSE IF buf2[l1 + 1] = NUL THEN [buf |-> buf2, s |-> s2, l |-> NullOff]
             ELSE IF buf3[l2 + 1] = NUL THEN [buf |-> buf3, s |-> s2, l |-> NullOff]
             ELSE [buf |-> buf3, s |-> s2, l |-> l2]
    IN  IF ~ossl_isalnum(buf1[1])
        THEN [stop |-> TRUE, buf |-> buf1, s |-> NullOff, l |-> l0]
        ELSE [stop |-> r.buf[1] = NUL, buf |-> r.buf, s |-> r.s, l |-> r.l]

\* the argument OBJ_create gets for the pointer p
co_arg(buf, p) == IF p = NullOff THEN NULL ELSE CStrAt(buf, p)

\* lines 737-773: the next line is read and parsed; the call returns num, or
\* OBJ_create(o, s, l) begins
co_loop(thr) ==
    IF thr.pos = Len(thr.in)
    THEN [thr EXCEPT !.pc = "done", !.bulk = FALSE, !.ret = thr.num]
    ELSE LET line == thr.in[thr.pos + 1]
             p == co_parse(BIO_gets(thr.cbuf, line), Len(line), thr.l)
             rd == [thr EXCEPT !.pos = @ + 1, !.cbuf = p.buf, !.l = p.l]
         IN  IF p.stop
             THEN [rd EXCEPT !.pc = "done", !.bulk = FALSE, !.ret = thr.num]
             ELSE create_begin(
                      [rd EXCEPT !.oid = CStrAt(p.buf, 0),
                                 !.sn = co_arg(p.buf, p.s),
                                 !.ln = co_arg(p.buf, p.l),
                                 !.calls = Append(@, [line |-> thr.pos + 1,
                                                      oid |-> CStrAt(p.buf, 0),
                                                      sn |-> co_arg(p.buf, p.s),
                                                      ln |-> co_arg(p.buf, p.l),
                                                      ret |-> 0])])

\* in: the lines of the BIO
OBJ_create_objects(t, in) ==
    /\ CanCall(t)
    /\ Cardinality(FreeSlots) >= Len(in)
    /\ RoomForNids(t, Len(in))
    /\ th' = [th EXCEPT ![t] =
                 co_loop([Idle EXCEPT !.op = "OBJ_create_objects", !.bulk = TRUE,
                                      !.in = in, !.before = Snap])]
    /\ UNCHANGED <<tsan_locking, added, heap, lock, once, new_nid, crashed, handed, shut>>

\* lines 773-775: OBJ_create has returned
\* a loop that counts the call and goes on whether or not it succeeded
CreateObjectsNext_GoOn(t) ==
    /\ At(t, "co_ret")
    /\ LET thr == [th[t] EXCEPT !.calls[Len(th[t].calls)].ret = th[t].ret]
       IN  th' = [th EXCEPT ![t] = co_loop([thr EXCEPT !.num = @ + 1])]
    /\ UNCHANGED <<tsan_locking, added, heap, lock, once, new_nid, crashed, handed, shut>>

CreateObjectsNext(t) ==
    /\ At(t, "co_ret")
    /\ LET thr == [th[t] EXCEPT !.calls[Len(th[t].calls)].ret = th[t].ret]
       IN  th' = [th EXCEPT ![t] =
                     IF thr.ret = 0
                     THEN [thr EXCEPT !.pc = "done", !.bulk = FALSE, !.ret = thr.num]
                     ELSE co_loop([thr EXCEPT !.num = @ + 1])]
    /\ UNCHANGED <<tsan_locking, added, heap, lock, once, new_nid, crashed, handed, shut>>

----------------------------------------------------------------------------
(* ossl_obj_cleanup_int: the three sweeps over the table, then the frees.   *)
(* It takes no lock.                                                        *)

Referenced(recs) == {r.obj : r \in recs}

\* a count that passes over the records whose type is -1
RefCount_ValidOnly(recs, o) ==
    Cardinality({r \in recs : r.obj = o /\ r.type # ADDED_INVALID})

RefCount(recs, o) == Cardinality({r \in recs : r.obj = o})

\* cleanup3_doall(a) on the heap st.heap
cleanup3_doall(st, a) ==
    IF ~st.heap[a.obj].live THEN [st EXCEPT !.uaf = TRUE]
    ELSE IF st.heap[a.obj].nid - 1 = 0
    THEN [st EXCEPT !.heap[a.obj] = NoObj, !.freed[a.obj] = @ + 1]
    ELSE [st EXCEPT !.heap[a.obj].nid = @ - 1]

\* lh_ADDED_OBJ_doall(added, cleanup3_doall): every record is visited once
RECURSIVE cleanup3_sweep(_, _)
cleanup3_sweep(recs, st) ==
    IF recs = {} THEN st
    ELSE LET a == CHOOSE r \in recs : TRUE
         IN  cleanup3_sweep(recs \ {a}, cleanup3_doall(st, a))

\* objs_free_locks
objs_free_locks == NullLock

\* lines 213-215: cleanup1_doall zeroes the counter of every object a record names
ossl_obj_cleanup_int(t) ==
    /\ CanCall(t)
    /\ LET thr == [Idle EXCEPT !.op = "ossl_obj_cleanup_int", !.before = Snap]
       IN  IF added.null
           THEN /\ lock' = objs_free_locks
                /\ shut' = TRUE
                /\ th' = [th EXCEPT ![t] = Return([thr EXCEPT !.before = NoSnap], 0, NullPtr)]
                /\ heap' = heap
           ELSE /\ heap' = [o \in 1..MaxObjs |->
                               IF o \in Referenced(added.recs)
                               THEN [heap[o] EXCEPT !.nid = 0] ELSE heap[o]]
                /\ th' = [th EXCEPT ![t] = [thr EXCEPT !.pc = "cl2"]]
                /\ UNCHANGED <<tsan_locking, lock, shut>>
    /\ UNCHANGED <<tsan_locking, added, once, new_nid, crashed, handed>>

\* line 216: cleanup2_doall counts the records of every object
Cleanup2(t) ==
    /\ At(t, "cl2")
    /\ heap' = [o \in 1..MaxObjs |->
                   [heap[o] EXCEPT !.nid = @ + RefCount(added.recs, o)]]
    /\ th' = [th EXCEPT ![t].pc = "cl3"]
    /\ UNCHANGED <<tsan_locking, added, lock, once, new_nid, crashed, handed, shut>>

\* line 217: cleanup3_doall frees an object when its counter reaches 0, and
\* every record.  Reading the counter of an object that is already freed is
\* undefined: the process dies or goes on.
Cleanup3(t) ==
    /\ At(t, "cl3")
    /\ LET st == cleanup3_sweep(added.recs, [heap |-> heap, freed |-> NoSweep.freed,
                                             uaf |-> FALSE])
       IN  /\ heap' = st.heap
           /\ th' = [th EXCEPT ![t].pc = "cl4",
                               ![t].sweep = [freed |-> st.freed, uaf |-> st.uaf]]
           /\ \E trap \in BOOLEAN :
                 /\ trap => st.uaf
                 /\ crashed' = IF trap THEN "cleanup" ELSE crashed
    /\ added' = [added EXCEPT !.recs = {}]
    /\ UNCHANGED <<tsan_locking, lock, once, new_nid, handed, shut>>

\* lines 218-221: the table is freed, added and ossl_obj_lock become NULL;
\* ossl_obj_lock_init is left as it is
Cleanup4(t) ==
    /\ At(t, "cl4")
    /\ added' = NullAdded
    /\ lock' = objs_free_locks
    /\ shut' = TRUE
    /\ th' = [th EXCEPT ![t] = Return([@ EXCEPT !.before = NoSnap, !.sweep = NoSweep],
                                       0, NullPtr)]
    /\ UNCHANGED <<tsan_locking, heap, once, new_nid, crashed, handed>>

----------------------------------------------------------------------------
(* The arguments the calls are made with                                    *)

T_1_2 == <<"1", ".", "2">>
T_CN == <<"2", ".", "5", ".", "4", ".", "3">>
T_1_40 == <<"1", ".", "4", "0">>

SnArgs == {NULL, <<"a">>, <<"C", "N">>}
LnArgs == {NULL, <<"x">>, <<"c", "n">>}
OidArgs == {NULL, T_1_2, T_CN, T_1_40}

SnKeys == {<<"a">>, <<"C", "N">>}
LnKeys == {<<"x">>, <<"c", "n">>}
NidKeys == {2, NUM_NID}
ObjKeys == {Obj(0, NULL, NULL, <<42>>), Obj(0, NULL, NULL, DER_CN),
            Obj(NUM_NID, NULL, NULL, <<>>)}
TxtKeys == {<<<<"a">>, FALSE>>, <<<<"q">>, FALSE>>, <<T_1_2, FALSE>>, <<T_1_40, TRUE>>}
NumArgs == {1, 2}

\* pre-built objects handed to OBJ_add_object
AddArgs == {Obj(NID_undef, <<"a">>, NULL, <<>>),
            Obj(1, <<"a">>, <<"x">>, <<42>>),
            Obj(NUM_NID + 1, <<"a">>, NULL, <<42>>)}

----------------------------------------------------------------------------
(* Specifications                                                           *)

Init ==
    /\ added = NullAdded
    /\ heap = EmptyHeap
    /\ lock = NullLock
    /\ once = "init"
    /\ new_nid = NUM_NID
    /\ th = [t \in Threads |-> Idle]
    /\ crashed = ""
    /\ handed = <<>>
    /\ shut = FALSE
    /\ tsan_locking \in BOOLEAN

Step(t) ==
    \/ LookupEnter(t)
    \/ LookupInside(t)
    \/ NewNidLock(t)
    \/ NewNidLocked(t)
    \/ NewNidAdd(t)
    \/ AddLock(t)
    \/ AddLoop(t)
    \/ CreateTxt(t)
    \/ CreateLocked(t)
    \/ Cleanup2(t)
    \/ Cleanup3(t)
    \/ Cleanup4(t)

\* one thread making any call
Next ==
    \E t \in {1} :
        \/ Step(t)
        \/ \E s \in SnKeys : OBJ_sn2nid(t, s)
        \/ \E s \in LnKeys : OBJ_ln2nid(t, s)
        \/ \E a \in ObjKeys : OBJ_obj2nid(t, a.nid, a.data)
        \/ \E n \in NidKeys : OBJ_nid2obj(t, n)
        \/ \E k \in TxtKeys : OBJ_txt2obj(t, k[1], k[2])
        \/ \E num \in NumArgs : OBJ_new_nid(t, num)
        \/ \E oid \in OidArgs, sn \in SnArgs, ln \in LnArgs : OBJ_create(t, oid, sn, ln)
        \/ \E obj \in AddArgs : OBJ_add_object(t, obj)
        \/ ossl_obj_cleanup_int(t)

Spec == Init /\ [][Next]_vars

\* the arguments of the calls that run concurrently
ConcOidArgs == {NULL, T_1_2}

ConcSnArgs == {NULL, <<"a">>}

ConcSnKeys == {<<"a">>}

\* two threads, each making OBJ_create, OBJ_new_nid and OBJ_sn2nid calls
NextConc ==
    \E t \in Threads :
        \/ LookupEnter(t)
        \/ LookupInside(t)
        \/ NewNidLock(t)
        \/ NewNidLocked(t)
        \/ NewNidAdd(t)
        \/ AddLoop(t)
        \/ CreateTxt(t)
        \/ CreateLocked(t)
        \/ \E s \in ConcSnKeys : OBJ_sn2nid(t, s)
        \/ \E num \in NumArgs : OBJ_new_nid(t, num)
        \/ \E oid \in ConcOidArgs, sn \in ConcSnArgs : OBJ_create(t, oid, sn, NULL)

SpecConc == Init /\ [][NextConc]_vars

----------------------------------------------------------------------------
(* What a lookup returns in the current state, when it gets its lock        *)

\* OBJ_sn2nid
sn_to_nid(s) ==
    LET b == BuiltinLookup("sn", s, NID_undef, <<>>)
    IN  IF b.hit THEN b.res ELSE AddedLookup(added, heap, "sn", s, NID_undef, <<>>).res

\* OBJ_ln2nid
ln_to_nid(s) ==
    LET b == BuiltinLookup("ln", s, NID_undef, <<>>)
    IN  IF b.hit THEN b.res ELSE AddedLookup(added, heap, "ln", s, NID_undef, <<>>).res

\* OBJ_obj2nid of an object with the given nid and data
obj_to_nid(anid, adata) ==
    LET b == BuiltinLookup("der", NULL, anid, adata)
    IN  IF b.hit THEN b.res ELSE AddedLookup(added, heap, "der", NULL, anid, adata).res

\* OBJ_nid2obj
nid_to_obj(n) ==
    LET b == BuiltinLookup("nid", NULL, n, <<>>)
    IN  IF b.hit THEN b.ptr ELSE AddedLookup(added, heap, "nid", NULL, n, <<>>).ptr

\* the added objects a lookup can return: those a record with a valid type names
AddedEntries(ad, hp) == {r.obj : r \in {x \in ad.recs : x.type # ADDED_INVALID}}

Done(t, op) == th[t].pc = "done" /\ th[t].op = op

LockErrs == {"ERR_R_UNABLE_TO_GET_READ_LOCK", "ERR_R_UNABLE_TO_GET_WRITE_LOCK"}

\* failures of the lock, the allocator, the codec or the container
OperationalErrs ==
    LockErrs \cup {"ERR_R_MALLOC_FAILURE", "ERR_R_ASN1_LIB", "ERR_R_CRYPTO_LIB",
                   "ASN1_R_INVALID_OID"}

----------------------------------------------------------------------------
(* C1 *)

\* C1: after OBJ_create(oid, sn, ln) has returned the NID k, OBJ_sn2nid(sn) = k,
\* OBJ_ln2nid(ln) = k, OBJ_obj2nid(OBJ_txt2obj(oid, 1)) = k for the arguments that
\* were given, and OBJ_nid2obj(k) is an object whose sn is sn.
C1_RegisterVisible ==
    \A t \in Threads :
        (Done(t, "OBJ_create") /\ th[t].ret # 0) =>
            LET k == th[t].ret
                p == nid_to_obj(k)
            IN  /\ th[t].sn # NULL => sn_to_nid(th[t].sn) = k
                /\ th[t].ln # NULL => ln_to_nid(th[t].ln) = k
                /\ th[t].oid # NULL =>
                      obj_to_nid(NID_undef, txt2obj_parse(th[t].oid, TRUE).data) = k
                /\ p # NullPtr
                /\ Deref(p).sn = th[t].sn

C1_Witness ==
    \E t \in Threads :
        /\ Done(t, "OBJ_create") /\ th[t].ret >= NUM_NID
        /\ th[t].oid # NULL /\ th[t].sn # NULL /\ th[t].ln # NULL

----------------------------------------------------------------------------
(* C2 *)

\* the entries known in a snapshot: the built-in table and the added objects
KnownSn(snap, s) ==
    \/ \E n \in BuiltinIdx : nid_objs(n).sn = s
    \/ \E o \in AddedEntries(snap.added, snap.heap) : snap.heap[o].sn = s

KnownLn(snap, s) ==
    \/ \E n \in BuiltinIdx : nid_objs(n).ln = s
    \/ \E o \in AddedEntries(snap.added, snap.heap) : snap.heap[o].ln = s

KnownDer(snap, d) ==
    \/ \E n \in BuiltinIdx : nid_objs(n).data = d
    \/ \E o \in AddedEntries(snap.added, snap.heap) : snap.heap[o].data = d

\* the arguments of the OBJ_create call of thr name something known when it began
Collides(thr) ==
    \/ thr.sn # NULL /\ KnownSn(thr.before, thr.sn)
    \/ thr.ln # NULL /\ KnownLn(thr.before, thr.ln)
    \/ /\ thr.oid # NULL
       /\ txt2obj_parse(thr.oid, TRUE).ok
       /\ KnownDer(thr.before, txt2obj_parse(thr.oid, TRUE).data)

\* C2: an OBJ_create whose sn, ln or parsed DER equals that of an entry already
\* known, built-in or added, returns 0 with OBJ_R_OID_EXISTS and leaves the added
\* table, the objects and the NID counter as they were when it was called.
C2_CollisionRejected ==
    \A t \in Threads :
        (/\ Done(t, "OBJ_create")
         /\ Collides(th[t])
         /\ th[t].err \cap OperationalErrs = {}
         /\ crashed = "") =>
            /\ th[t].ret = 0
            /\ "OBJ_R_OID_EXISTS" \in th[t].err
            /\ Snap = th[t].before

----------------------------------------------------------------------------
(* C3 *)

InsertFailed(t) ==
    /\ th[t].pc = "done"
    /\ th[t].op \in {"OBJ_create", "OBJ_add_object"}
    /\ "ERR_R_CRYPTO_LIB" \in th[t].err

\* C3: when the container reports a failure while a record of a new entry is being
\* inserted, for an entry with any subset of DER, sn and ln, the call returns
\* NID_undef and the added table holds exactly the records it held before the call.
C3_AllOrNothing ==
    /\ crashed # "rollback"
    /\ \A t \in Threads :
          InsertFailed(t) =>
              /\ th[t].ret = NID_undef
              /\ added.recs = th[t].before.added.recs

----------------------------------------------------------------------------
(* C4, C5 *)

\* the added objects a lookup can return in the current state
Entries == IF added.null THEN {} ELSE AddedEntries(added, heap)

\* no call is in flight
Quiescent == crashed = "" /\ \A t \in Threads : th[t].pc \in {"idle", "done"}

\* C4: in every state between calls reached by OBJ_create, OBJ_add_object and OBJ_new_nid calls,
\* no two added entries have the same NID and no added entry has the NID of an
\* occupied slot of the built-in table.
C4_NidsUnique ==
    Quiescent =>
        /\ \A o1, o2 \in Entries : o1 # o2 => heap[o1].nid # heap[o2].nid
        /\ \A o \in Entries : heap[o].nid \notin BuiltinIdx

\* C5: in every state between calls reached by sequential OBJ_create and OBJ_add_object calls, no
\* two added entries have the same sn, the same ln or the same DER.
C5_KeysUnique ==
    Quiescent =>
        \A o1, o2 \in Entries :
            o1 # o2 =>
                /\ heap[o1].sn # NULL => heap[o1].sn # heap[o2].sn
                /\ heap[o1].ln # NULL => heap[o1].ln # heap[o2].ln
                /\ Len(heap[o1].data) # 0 => heap[o1].data # heap[o2].data

----------------------------------------------------------------------------
(* C6, C7 *)

\* two OBJ_create calls that returned a NID
BothCreated(t, u) ==
    /\ t # u
    /\ Done(t, "OBJ_create") /\ th[t].ret # 0
    /\ Done(u, "OBJ_create") /\ th[u].ret # 0

\* C6: of the concurrent OBJ_create calls that carry the same sn (or the same ln, or
\* the same oid) at most one succeeds, so two successful calls never share a name or
\* a DER, and the name of a successful call keeps resolving to the NID it returned.
C6_OneWinner ==
    \A t, u \in Threads :
        BothCreated(t, u) =>
            /\ th[t].sn # NULL => th[t].sn # th[u].sn
            /\ th[t].ln # NULL => th[t].ln # th[u].ln
            /\ th[t].oid # NULL => th[t].oid # th[u].oid
            /\ th[t].sn # NULL => sn_to_nid(th[t].sn) = th[t].ret

\* the NIDs of the i-th block the allocator handed out
Block(i) == handed[i].base..(handed[i].base + handed[i].num - 1)

\* the blocks returned by OBJ_new_nid calls, one per thread whose call has returned
Returned(t) == Done(t, "OBJ_new_nid") /\ th[t].err = {}

RetBlock(t) == th[t].ret..(th[t].ret + th[t].n - 1)

\* C7: concurrent OBJ_new_nid calls never return overlapping blocks; the blocks
\* handed out are pairwise disjoint and together fill the range from NUM_NID to the
\* counter, so N calls for one NID return N distinct, contiguous values.
C7_BlocksDisjoint ==
    /\ \A t, u \in Threads :
          (t # u /\ Returned(t) /\ Returned(u)) => RetBlock(t) \cap RetBlock(u) = {}
    /\ \A i, j \in 1..Len(handed) : i # j => Block(i) \cap Block(j) = {}
    /\ UNION {Block(i) : i \in 1..Len(handed)} = NUM_NID..(new_nid - 1)
    /\ \A t \in Threads :
          Returned(t) => \E i \in 1..Len(handed) :
                             handed[i] = [base |-> th[t].ret, num |-> th[t].n]

\* both threads hold a block, one of them of two NIDs, in the build that locks
C7_Witness ==
    /\ tsan_locking
    /\ Returned(1) /\ Returned(2)
    /\ th[1].n = 2 /\ th[2].n = 1
    /\ th[2].ret < th[1].ret

----------------------------------------------------------------------------
(* C8 *)

\* C8: every NID handed out is at least NUM_NID and greater than every NID handed
\* out before it; a request for num NIDs advances the counter by exactly num; and a
\* NID that a failed OBJ_create consumed is not handed out again.
C8_NidsMonotonic ==
    /\ \A i \in 1..Len(handed) :
          /\ handed[i].base >= NUM_NID
          /\ handed[i].base = IF i = 1 THEN NUM_NID
                              ELSE handed[i - 1].base + handed[i - 1].num
          /\ \A j \in 1..(i - 1) : \A n \in Block(j) : handed[i].base > n
    /\ new_nid = IF handed = <<>> THEN NUM_NID
                 ELSE handed[Len(handed)].base + handed[Len(handed)].num
    /\ \A t \in Threads :
          /\ (Done(t, "OBJ_new_nid") /\ th[t].err = {}) =>
                \E i \in 1..Len(handed) :
                    handed[i] = [base |-> th[t].ret, num |-> th[t].n]
          /\ (Done(t, "OBJ_create") /\ th[t].ret # 0) =>
                \E i \in 1..Len(handed) :
                    handed[i] = [base |-> th[t].ret, num |-> 1]
          /\ (Done(t, "OBJ_create") /\ th[t].ret = 0
                /\ th[t].before.new_nid # new_nid) =>
                /\ new_nid = th[t].before.new_nid + 1
                /\ handed[Len(handed)] = [base |-> th[t].before.new_nid, num |-> 1]

\* an OBJ_create that failed after it took a NID, with earlier blocks handed out
C8_Witness ==
    \E t \in Threads :
        /\ Done(t, "OBJ_create") /\ th[t].ret = 0
        /\ "ERR_R_CRYPTO_LIB" \in th[t].err
        /\ Len(handed) >= 2
        /\ handed[1].num = 2
        /\ handed[Len(handed)].base = th[t].before.new_nid

----------------------------------------------------------------------------
(* C9 *)

\* the arguments of the OBJ_create call of thr are well formed and name nothing
\* that a lookup finds in the current state without the new entry
FreshCreate(thr) ==
    /\ thr.oid # NULL \/ thr.sn # NULL \/ thr.ln # NULL
    /\ thr.oid # NULL => txt2obj_parse(thr.oid, TRUE).ok
    /\ ~Collides(thr)

\* C9: after ossl_obj_cleanup_int has completed, an OBJ_create call (or a lookup that
\* needs the lock) finds the lock and the table created again: the process does not
\* die on the lock, no call reports that it could not take the lock, and an OBJ_create
\* of a fresh entry that meets no allocation failure returns its NID.  (once = "ok":
\* the one-time creation of the lock did not itself fail.)
C9_ReinitAfterShutdown ==
    (shut /\ once = "ok") =>
        /\ crashed # "lock"
        /\ \A t \in Threads :
              th[t].pc = "done" =>
                  /\ th[t].err \cap LockErrs = {}
                  /\ (/\ th[t].op = "OBJ_create"
                      /\ FreshCreate(th[t])
                      /\ th[t].err \cap OperationalErrs = {}) => th[t].ret # 0

----------------------------------------------------------------------------
(* C10 *)

NidLookups == {"OBJ_sn2nid", "OBJ_ln2nid", "OBJ_obj2nid"}

ObjLookups == {"OBJ_nid2obj", "OBJ_txt2obj"}

\* a lookup has returned without a match, and not because the lock, the allocator or
\* the codec failed
NotFound(t) ==
    /\ th[t].pc = "done"
    /\ \/ th[t].op \in NidLookups /\ th[t].ret = NID_undef
       \/ th[t].op \in ObjLookups /\ th[t].robj = NullPtr
    /\ th[t].err \cap OperationalErrs = {}

\* C10 as stated: a lookup by sn, ln, DER, NID or text that finds no matching entry
\* returns NID_undef (or NULL) and records no error.
C10_NotFoundSilent == \A t \in Threads : NotFound(t) => th[t].err = {}

\* C10, amended: a lookup that finds no matching entry returns NID_undef (or NULL);
\* OBJ_sn2nid, OBJ_ln2nid and OBJ_obj2nid record no error, OBJ_nid2obj records
\* OBJ_R_UNKNOWN_NID and OBJ_txt2obj of a name records OBJ_R_UNKNOWN_OBJECT_NAME.
C10_NotFoundErrors ==
    \A t \in Threads :
        NotFound(t) =>
            th[t].err = CASE th[t].op = "OBJ_nid2obj" -> {"OBJ_R_UNKNOWN_NID"}
                          [] th[t].op = "OBJ_txt2obj" -> {"OBJ_R_UNKNOWN_OBJECT_NAME"}
                          [] OTHER -> {}

\* a name searched in a table that holds added records, and not found
C10_Witness ==
    \E t \in Threads :
        /\ NotFound(t)
        /\ th[t].op = "OBJ_txt2obj"
        /\ Entries # {}

----------------------------------------------------------------------------
(* OBJ_obj2txt on bounded inputs                                            *)

\* the largest buffer but one that the calls are made with
MaxCap == 4

TxtCaps == (1..MaxCap) \cup {3 * MaxCap}

TxtBufs == {NoBuf} \cup {NewBuf(c) : c \in TxtCaps}

\* DER contents: 1.2, 2.5.4.3, 0.39, 2.40, a padded sub-identifier, a sub-identifier
\* cut short, sub-identifiers beyond unsigned long (first and later), and one byte
\* more than the longest content accepted
DerArgs ==
    {<<42>>, DER_CN, <<39>>, <<120>>, <<128, 1>>, <<42, 129>>, <<42, 129, 128, 1>>,
     <<129, 128, 1>>, [i \in 1..(MaxDerLen + 1) |-> 1]}

\* objects that are not in the registry, with and without a nid of their own
TxtArgs ==
    {Obj(NID_undef, NULL, NULL, d) : d \in DerArgs}
        \cup {nid_objs(1), Obj(NUM_NID + MaxAlloc, NULL, NULL, <<42>>)}

TxtOidArgs == {NULL, T_1_2}

TxtLnArgs == {NULL, <<"x">>}

\* the object in heap slot o, as OBJ_nid2obj hands it out
EntryArg(o) == Obj(heap[o].nid, heap[o].sn, heap[o].ln, heap[o].data)

\* one thread registering entries and asking for the text of objects
NextTxt ==
    \E t \in {1} :
        \/ LookupEnter(t)
        \/ LookupInside(t)
        \/ CreateTxt(t)
        \/ CreateLocked(t)
        \/ AddLoop(t)
        \/ \E oid \in TxtOidArgs, ln \in TxtLnArgs : OBJ_create(t, oid, <<"a">>, ln)
        \/ \E a \in TxtArgs, no_name \in BOOLEAN, b \in TxtBufs, nomem \in BOOLEAN :
              OBJ_obj2txt(t, a, no_name, b, nomem)
        \/ \E o \in 1..MaxObjs, no_name \in BOOLEAN, b \in TxtBufs, nomem \in BOOLEAN :
              /\ heap[o].live
              /\ OBJ_obj2txt(t, EntryArg(o), no_name, b, nomem)

SpecTxt == Init /\ [][NextTxt]_vars

----------------------------------------------------------------------------
(* C11 *)

\* the name OBJ_obj2txt is to emit for a: the ln, else the sn, of the registered
\* entry a resolves to; NULL when a resolves to none or the entry has no name
RegisteredName(a) ==
    LET nid == obj_to_nid(a.nid, a.data)
        p == IF nid = NID_undef THEN NullPtr ELSE nid_to_obj(nid)
    IN  IF p = NullPtr THEN NULL
        ELSE IF Deref(p).ln # NULL THEN Deref(p).ln ELSE Deref(p).sn

\* the text the claim gives for a call with the arguments of thr
ExpectedText(thr) ==
    IF ~thr.no_name /\ RegisteredName(thr.a) # NULL
    THEN RegisteredName(thr.a)
    ELSE der_to_text(thr.a.data).text

\* the call of t returned a text and its buffer had room for all of it
TextReturned(t) ==
    /\ Done(t, "OBJ_obj2txt")
    /\ th[t].ret >= 0
    /\ th[t].err \cap LockErrs = {}
    /\ ~th[t].buf.null
    /\ Len(th[t].buf.mem) > th[t].ret

\* C11: with no_name = 0, OBJ_obj2txt of an object that resolves to a registered
\* NID (built-in or added, an entry registered without an OID included) gives the
\* entry's ln, or its sn when it has no ln; in every other case, and whenever
\* no_name = 1, it gives the dotted form of the object's DER content.
C11_NameOrDotted ==
    \A t \in Threads :
        TextReturned(t) => CStr(th[t].buf.mem) = ExpectedText(th[t])

----------------------------------------------------------------------------
(* C12 *)

\* the text of the call of thr when the buffer holds all of it
FullText(thr) == IF thr.a.data = <<>> THEN <<>> ELSE ExpectedText(thr)

\* the first k characters of s, or all of s when it is shorter
Prefix(s, k) == SubSeq(s, 1, IF Len(s) < k THEN Len(s) ELSE k)

\* C12: for every object and every buffer of cap >= 1 bytes, OBJ_obj2txt leaves
\* the buffer NUL-terminated inside its cap bytes, the characters in it are the
\* first min(cap - 1, full length) characters of the full text, and the value
\* returned is the length of the full text, with a buffer of any size or none.
C12_Truncation ==
    \A t \in Threads :
        (Done(t, "OBJ_obj2txt") /\ th[t].ret >= 0 /\ th[t].err \cap LockErrs = {}) =>
            LET b == th[t].buf
                full == FullText(th[t])
            IN  /\ th[t].ret = Len(full)
                /\ ~b.null =>
                      /\ ~b.ovf
                      /\ Terminated(b.mem)
                      /\ CStr(b.mem) = Prefix(full, Len(b.mem) - 1)

\* a dotted text with a sub-identifier from the BIGNUM, cut short by the buffer
C12_Witness ==
    \E t \in Threads :
        /\ Done(t, "OBJ_obj2txt") /\ th[t].err = {}
        /\ ~th[t].buf.null
        /\ Len(th[t].buf.mem) >= 2
        /\ th[t].ret >= Len(th[t].buf.mem)
        /\ NeedsBignum(th[t].a.data, 1)
        /\ Len(CStr(th[t].buf.mem)) = Len(th[t].buf.mem) - 1

----------------------------------------------------------------------------
(* C13 *)

\* the call of t gave the dotted form of its object and the buffer holds all of it
DottedReturned(t) ==
    /\ Done(t, "OBJ_obj2txt")
    /\ th[t].no_name
    /\ th[t].a.data # <<>>
    /\ th[t].ret >= 0
    /\ ~th[t].buf.null
    /\ Len(th[t].buf.mem) > th[t].ret

\* C13: every DER content d that the dotted decoding of OBJ_obj2txt accepts comes
\* back from the encoder: text_to_der(der_to_text(d)) = d.  (The decoding rejects
\* contents of more than 586 bytes and contents whose last byte has the
\* continuation bit, and splits the first sub-identifier v0 into v0 / 40 and
\* v0 mod 40 below 80, into 2 and v0 - 80 from 80 on.)
C13_RoundTrip ==
    \A t \in Threads :
        DottedReturned(t) =>
            text_to_der(CStr(th[t].buf.mem)) = [ok |-> TRUE, der |-> th[t].a.data]

----------------------------------------------------------------------------
(* OBJ_create_objects on bounded streams                                    *)

\* the longest stream, in lines
MaxLines == 2

\* "1.2 a xy", "1.40" (no sn, no ln), "1.40 b" (no ln), "1.2a b" (a letter right
\* after the OID), "#" (not alphanumeric), "a b" (no OID)
LineArgs ==
    {<<"1", ".", "2", " ", "a", " ", "x", "y", "\n">>,
     <<"1", ".", "4", "0", "\n">>,
     <<"1", ".", "4", "0", " ", "b", "\n">>,
     <<"1", ".", "2", "a", " ", "b", "\n">>,
     <<"#", "\n">>,
     <<"a", " ", "b", "\n">>}

StreamArgs == UNION {[1..n -> LineArgs] : n \in 1..MaxLines}

\* one thread loading streams
NextBulk ==
    \E t \in {1} :
        \/ LookupEnter(t)
        \/ LookupInside(t)
        \/ CreateTxt(t)
        \/ CreateLocked(t)
        \/ AddLoop(t)
        \/ CreateObjectsNext(t)
        \/ \E in \in StreamArgs : OBJ_create_objects(t, in)

SpecBulk == Init /\ [][NextBulk]_vars

----------------------------------------------------------------------------
(* C14 *)

\* what lines 741-772 make of a line when no line came before it
ParsedAlone(line) == co_parse(BIO_gets(<<>>, line), Len(line), NullOff)

\* C14: for every line of the stream, whatever lines came before it, the sn and
\* the ln that OBJ_create_objects passes to OBJ_create are those of the line
\* itself: a line without an sn token or without an ln token gives a call with
\* that argument NULL.
C14_ArgsFromLine ==
    \A t \in Threads : \A k \in 1..Len(th[t].calls) :
        LET c == th[t].calls[k]
            p == ParsedAlone(th[t].in[c.line])
        IN  /\ c.sn = co_arg(p.buf, p.s)
            /\ c.ln = co_arg(p.buf, p.l)

----------------------------------------------------------------------------
(* C15 *)

\* the offset behind the leading digits and dots of a line
OidEnd(line) == co_scan(Append(line, NUL), 0, "oid")

\* the line starts with a byte that is not alphanumeric, or has no OID
NoOid(line) == ~ossl_isalnum(line[1]) \/ OidEnd(line) = 0

\* the digits and dots of the line are followed by something that is not white space
BadSeparator(line) == ~ossl_isspace(Append(line, NUL)[OidEnd(line) + 1])

\* C15: a line whose leading digits and dots are followed by a character that is
\* not white space ends the loading, and so does a line that starts with a byte
\* that is not alphanumeric or that has an empty OID field: OBJ_create is called
\* neither for that line nor for a later one.
C15_TerminatorStops ==
    \A t \in Threads : \A k \in 1..Len(th[t].calls) :
        \A j \in 1..th[t].calls[k].line :
            ~NoOid(th[t].in[j]) /\ ~BadSeparator(th[t].in[j])

----------------------------------------------------------------------------
(* C16 *)

\* C16: OBJ_create_objects returns the number of OBJ_create calls that
\* succeeded.  It takes the lines in order and makes at most one call per line;
\* the first call that fails, the end of the stream or a terminator line ends it
\* and no later line is read; the entries registered before that stay registered.
C16_CountsSuccesses ==
    \A t \in Threads :
        Done(t, "OBJ_create_objects") =>
            LET c == th[t].calls
                n == Len(c)
            IN  /\ th[t].ret = Cardinality({k \in 1..n : c[k].ret # 0})
                /\ \A k \in 1..n : c[k].line = k
                /\ \A k \in 1..(n - 1) : c[k].ret # 0
                /\ th[t].pos \in {n, n + 1}
                /\ th[t].pos = n + 1 => c = <<>> \/ c[n].ret # 0
                /\ (th[t].pos = n /\ n < Len(th[t].in)) => c[n].ret = 0
                /\ \A k \in 1..n :
                      c[k].ret # 0 =>
                          /\ nid_to_obj(c[k].ret) # NullPtr
                          /\ Deref(nid_to_obj(c[k].ret)).sn = c[k].sn

\* a stream of two lines whose second call failed after the first had succeeded
C16_Witness ==
    \E t \in Threads :
        /\ Done(t, "OBJ_create_objects")
        /\ Len(th[t].calls) = 2
        /\ th[t].ret = 1
        /\ th[t].calls[2].ret = 0

----------------------------------------------------------------------------
(* C17 *)

\* the records that name the object in heap slot o
RecordsOf(recs, o) == {r \in recs : r.obj = o}

\* C17: for every content of the added table that OBJ_create and OBJ_add_object
\* calls lead to (objects named by 1 to 4 records, records of type -1 included),
\* after the second sweep the counter of each object is the number of records
\* that name it; the third sweep frees each object once, when its counter
\* reaches 0, frees each record once, and reads no object that is already freed.
C17_SweepCounts ==
    \A t \in Threads :
        /\ th[t].pc = "cl3" =>
              \A o \in 1..MaxObjs :
                  IF heap[o].live
                  THEN /\ heap[o].nid = Cardinality(RecordsOf(added.recs, o))
                       /\ heap[o].nid \in 1..4
                  ELSE RecordsOf(added.recs, o) = {}
        /\ th[t].pc = "cl4" =>
              /\ added.recs = {}
              /\ ~th[t].sweep.uaf
              /\ \A o \in 1..MaxObjs :
                    /\ ~heap[o].live
                    /\ th[t].sweep.freed[o] =
                          (IF th[t].before.heap[o].live THEN 1 ELSE 0)

\* the third sweep is over: two objects were freed, one of them named by a
\* record of type -1 as well
C17_Witness ==
    \E t \in Threads :
        /\ th[t].pc = "cl4"
        /\ \A o \in 1..MaxObjs : th[t].sweep.freed[o] = 1
        /\ \E r \in th[t].before.added.recs : r.type = ADDED_INVALID

----------------------------------------------------------------------------
(* The cleanup beside readers and writers                                   *)

ShutAddArgs == {Obj(1, <<"a">>, <<"x">>, <<42>>), Obj(NUM_NID + 1, <<"a">>, NULL, <<42>>)}

\* two threads, each making lookups, OBJ_add_object calls and the cleanup
NextShut ==
    \E t \in Threads :
        \/ LookupEnter(t)
        \/ LookupInside(t)
        \/ AddLock(t)
        \/ AddLoop(t)
        \/ Cleanup2(t)
        \/ Cleanup3(t)
        \/ Cleanup4(t)
        \/ OBJ_sn2nid(t, <<"a">>)
        \/ OBJ_nid2obj(t, NUM_NID + 1)
        \/ \E obj \in ShutAddArgs : OBJ_add_object(t, obj)
        \/ ossl_obj_cleanup_int(t)

SpecShut == Init /\ [][NextShut]_vars

----------------------------------------------------------------------------
(* C18 *)

\* C18: ossl_obj_cleanup_int has the registry lock to itself for the whole of
\* its sweep: in no state is a reader (inside a lookup, under the read lock) or a
\* writer (inside OBJ_create or OBJ_add_object) at the added table or at one of
\* its objects while the cleanup zeroes the counters, frees the objects or frees
\* the table.
C18_ShutdownExclusive ==
    \A t \in Threads :
        InSweep(t) => /\ lock.w = t
                      /\ \A u \in Others(t) : ~InsideTable(u)

----------------------------------------------------------------------------
(* C19 *)

\* the object in heap slot o has a record in the table for each of its keys; a
\* record whose type is -1 has been superseded by a later insertion
Installed(o) ==
    \A i \in ADDED_DATA..ADDED_NID :
        Present(heap[o], i) =>
            \E r \in added.recs :
                /\ r.obj = o
                /\ r.hash = added_obj_hash(i, heap[o])
                /\ r.type \in {i, ADDED_INVALID}

----------------------------------------------------------------------------
(* C20 *)

\* the records with a valid type
ValidRecs == {r \in added.recs : r.type # ADDED_INVALID}

\* a lookup is at the added table
ReaderInside == \E u \in Threads : th[u].pc = "lk_in"

\* C20: in every state of the added table that a reader can see, no two records
\* with a valid type have the same type and the same key: an insertion that
\* supersedes a record sets the old record's type to -1 before it inserts the
\* new one, so that a retrieve matches the new record only, and the old record
\* stays in the table until the cleanup.
C20_OneValidPerKey ==
    ReaderInside =>
        \A r1 \in ValidRecs, r2 \in ValidRecs :
            (/\ r1.type = r2.type
             /\ added_obj_cmp(r1.type, heap[r1.obj], r2.type, heap[r2.obj]) = 0)
                => r1 = r2

----------------------------------------------------------------------------
(* C21 *)

\* t holds ossl_obj_lock
HoldsRead(t) == t \in lock.r

HoldsWrite(t) == lock.w = t

\* where a call is between its read lock and its unlock, and between its write
\* lock and its unlock
ReadLockedPcs == {"lk_in"}

WriteLockedPcs == {"nn_locked", "nn_add", "ao_loop", "cr_locked"}

\* where the next step of a call takes the lock, and in which mode
LockMode(thr) ==
    CASE thr.pc = "lk" /\ ~BuiltinLookup(thr.lk, thr.s, thr.n, thr.data).hit -> "r"
      [] thr.pc \in {"nn_wlock", "ao_wlock", "cr_txt"} -> "w"
      [] OTHER -> ""

\* C21: a thread holds ossl_obj_lock exactly while its call is between the lock
\* and the unlock of that call: in read mode during the probe of a lookup, in
\* write mode during OBJ_new_nid's update (where the counter needs the lock),
\* the insertion loop and OBJ_create's locked part.  So a call that has returned,
\* with a result or with an error, holds nothing; a call about to take the lock
\* does not hold it; and when the other thread holds nothing either, the lock
\* call has an outcome, the call does not wait for itself.
C21_LockDiscipline ==
    \A t \in Threads :
        /\ HoldsRead(t) <=> th[t].pc \in ReadLockedPcs
        /\ HoldsWrite(t) <=> th[t].pc \in WriteLockedPcs
        /\ ~(HoldsRead(t) /\ HoldsWrite(t))
        /\ (/\ LockMode(th[t]) # ""
            /\ \A u \in Others(t) : ~HoldsRead(u) /\ ~HoldsWrite(u))
           => LockOutcomes(LockMode(th[t]), t) # {}

\* an insertion failed under the write lock and the call has returned through
\* err: the lock is there and free
C21_Witness ==
    /\ Done(1, "OBJ_add_object")
    /\ "ERR_R_CRYPTO_LIB" \in th[1].err
    /\ once = "ok"
    /\ lock = FreshLock

----------------------------------------------------------------------------
(* C22 *)

\* the records the table holds now and did not hold when the call of thr began
NewRecs(thr) == added.recs \ thr.before.added.recs

\* the copy of the call's object is in the heap and a record of it, of the type
\* of each key it has, is among the new records
InsertedAll(thr) ==
    \E o \in 1..MaxObjs :
        /\ heap[o] = PendingObj(thr)
        /\ \A i \in ADDED_DATA..ADDED_NID :
              Present(heap[o], i) => Rec(i, o, heap) \in NewRecs(thr)

\* C22: when OBJ_add_object(obj) has returned, for an obj of any nid (NID_undef
\* included): it has returned NID_undef exactly when the added table holds the
\* records it held before the call, and it has returned obj's nid exactly when
\* a record for each of obj's keys has been inserted.
C22_ReturnTellsInserted ==
    \A t \in Threads :
        Done(t, "OBJ_add_object") =>
            /\ th[t].ret = NID_undef <=> added.recs = th[t].before.added.recs
            /\ th[t].ret = th[t].n <=> InsertedAll(th[t])

====
